---------------------------- MODULE Spec2Model ----------------------------
(***************************************************************************)
(* askama_shared/src/error.rs: the aggregate error type `Error`, its       *)
(* `cause` and `Display::fmt` implementations, the `From` conversions and  *)
(* the `Result<I>` alias through which failures are propagated.            *)
(*                                                                         *)
(* Texts are sequences of one-character strings.  An underlying error      *)
(* (fmt::Error, regex::Error, ...) is an external value; it is modelled by *)
(* what error.rs asks of it: its type, the text its own Display writes     *)
(* (`msg`) and what its own `source()` returns (`source`).  Which messages  *)
(* and sources the external types really produce is not decided by         *)
(* error.rs, so every payload type is given every message and both a       *)
(* present and an absent source.                                           *)
(***************************************************************************)
EXTENDS Naturals, Sequences, FiniteSets

VARIABLES
    features,   \* the cargo features the crate is built with
    failure,    \* per slot: what the wrapped operation itself returned
    res,        \* per slot: the propagated Result<I> (error.rs line 3)
    owner,      \* per slot: the thread that made the value and the one holding it
    shown,      \* per slot and thread: what the thread's last to_string() returned
    caused,     \* per slot and thread: what the thread's last cause() returned
    fmtr        \* per thread: the fmt::Formatter of a to_string() call in progress

vars == <<features, failure, res, owner, shown, caused, fmtr>>

---------------------------------------------------------------------------
(* Bounds and input universes *)

\* longest underlying message that is enumerated
MaxLen == 1

\* characters of underlying messages; the quote is one a re-escaping would change
Chars == {"e", "\""}

Messages == UNION {[1..n -> Chars] : n \in 0..MaxLen}

Slots == {1, 2}

Threads == {"t1", "t2"}

None == [tag |-> "None"]

Some(v) == [tag |-> "Some", val |-> v]

Ok(v) == [tag |-> "Ok", val |-> v]

Err(e) == [tag |-> "Err", err |-> e]

\* the two cargo features error.rs tests with #[cfg(feature = ...)]
Features == {"serde_json", "serde_yaml"}

\* #[cfg(feature = "...")]
cfg(feature) == feature \in features

\* the payload types of the enum's variants
PayloadTypes ==
    {"fmt::Error", "regex::Error", "chrono::format::ParseError",
     "serde_json::Error", "serde_yaml::Error"}

\* the error an underlying error may itself name as its source
InnerErrors ==
    {[ty |-> "std::io::Error", msg |-> <<"e">>, source |-> None]}

\* the values of payload type ty: any message, with or without a nested source
Underlying(ty) ==
    {[ty |-> ty, msg |-> m, source |-> c] :
        m \in Messages, c \in {None} \cup {Some(i) : i \in InnerErrors}}

---------------------------------------------------------------------------
(* enum Error *)

\* the variants the build declares
Variants ==
    {"Fmt", "RegEx", "Chrono"}
        \cup (IF cfg("serde_json") THEN {"Json"} ELSE {})
        \cup (IF cfg("serde_yaml") THEN {"Yaml"} ELSE {})

\* the payload type each variant is declared with
PayloadType(variant) ==
    CASE variant = "Fmt" -> "fmt::Error"
      [] variant = "RegEx" -> "regex::Error"
      [] variant = "Chrono" -> "chrono::format::ParseError"
      [] variant = "Json" -> "serde_json::Error"
      [] variant = "Yaml" -> "serde_yaml::Error"

\* the values of the type Error
Error ==
    UNION {{[variant |-> v, err |-> e] : e \in Underlying(PayloadType(v))} :
              v \in Variants}

\* pub type Result<I> = ::std::result::Result<I, Error>
Result == {Ok("v")} \cup {Err(e) : e \in Error}

---------------------------------------------------------------------------
(* impl From<...> for Error *)

\* a conversion that wraps a formatting error in the wrong variant
from_fmt_as_regex(err) == [variant |-> "RegEx", err |-> err]

from_fmt(err) == [variant |-> "Fmt", err |-> err]

\* a conversion that keeps the message and loses the nested cause
from_regex_lossy(err) ==
    [variant |-> "RegEx", err |-> [err EXCEPT !.source = None]]

from_regex(err) == [variant |-> "RegEx", err |-> err]

\* a conversion that files a time-parsing error under Fmt
from_chrono_as_fmt(err) ==
    [variant |-> "Fmt", err |-> [err EXCEPT !.ty = "fmt::Error"]]

from_chrono(err) == [variant |-> "Chrono", err |-> err]

from_json(err) == [variant |-> "Json", err |-> err]

from_yaml(err) == [variant |-> "Yaml", err |-> err]

\* the conversions with the feature gates left out
FromImpls_ungated == PayloadTypes

\* the payload types the build has a From impl for
FromImpls ==
    {"fmt::Error", "regex::Error", "chrono::format::ParseError"}
        \cup (IF cfg("serde_json") THEN {"serde_json::Error"} ELSE {})
        \cup (IF cfg("serde_yaml") THEN {"serde_yaml::Error"} ELSE {})

\* Error::from(err): the impl the type of err selects
from(err) ==
    CASE err.ty = "fmt::Error" -> from_fmt(err)
      [] err.ty = "regex::Error" -> from_regex(err)
      [] err.ty = "chrono::format::ParseError" -> from_chrono(err)
      [] err.ty = "serde_json::Error" -> from_json(err)
      [] err.ty = "serde_yaml::Error" -> from_yaml(err)

\* what a wrapped operation can return: a value, or an error the build converts
OpResults ==
    {Ok("v")} \cup {Err(e) : e \in UNION {Underlying(ty) : ty \in FromImpls}}

\* a wrapped operation's result carried into Result<I>: the value as it is,
\* the error through From
Propagate(r) ==
    IF r.tag = "Ok" THEN Ok(r.val) ELSE Err(from(r.err))

---------------------------------------------------------------------------
(* impl std::error::Error for Error *)

\* a cause() that returns the wrapped payload
cause_payload(self) == [self |-> self, ret |-> Some(self.err)]

\* a cause() that moves the nested cause out of the payload it returns it from
cause_take(self) ==
    [self |-> [self EXCEPT !.err.source = None], ret |-> self.err.source]

\* cause(&self): the result, and self as the call leaves it
cause(self) ==
    [self |-> self,
     ret |-> CASE self.variant = "Fmt" -> self.err.source
               [] self.variant = "RegEx" -> self.err.source
               [] self.variant = "Chrono" -> self.err.source
               [] self.variant = "Json" /\ cfg("serde_json") -> self.err.source
               [] self.variant = "Yaml" /\ cfg("serde_yaml") -> self.err.source]

---------------------------------------------------------------------------
(* impl Display for Error *)

\* the payload's own Display, as "{}" writes it
display(err) == err.msg

\* an fmt whose format strings lack the separating space
Arguments_nospace(self) ==
    CASE self.variant = "Fmt" ->
           << <<"f", "o", "r", "m", "a", "t", "t", "i", "n", "g", " ",
                "e", "r", "r", "o", "r", ":">>, display(self.err) >>
      [] self.variant = "RegEx" ->
           << <<"r", "e", "g", "e", "x", " ", "e", "r", "r", "o", "r", ":">>,
              display(self.err) >>
      [] self.variant = "Chrono" ->
           << <<"c", "h", "r", "o", "n", "o", " ", "p", "a", "r", "s", "e", " ",
                "e", "r", "r", "o", "r", ":">>, display(self.err) >>
      [] self.variant = "Json" ->
           << <<"j", "s", "o", "n", " ", "c", "o", "n", "v", "e", "r", "s", "i",
                "o", "n", " ", "e", "r", "r", "o", "r", ":">>,
              display(self.err) >>
      [] self.variant = "Yaml" ->
           << <<"y", "a", "m", "l", " ", "c", "o", "n", "v", "e", "r", "s", "i",
                "o", "n", " ", "e", "r", "r", "o", "r", ":">>,
              display(self.err) >>

\* an fmt whose Json arm was copied from the Yaml arm with its text
Arguments_copied(self) ==
    CASE self.variant = "Fmt" ->
           << <<"f", "o", "r", "m", "a", "t", "t", "i", "n", "g", " ",
                "e", "r", "r", "o", "r", ":", " ">>, display(self.err) >>
      [] self.variant = "RegEx" ->
           << <<"r", "e", "g", "e", "x", " ", "e", "r", "r", "o", "r", ":", " ">>,
              display(self.err) >>
      [] self.variant = "Chrono" ->
           << <<"c", "h", "r", "o", "n", "o", " ", "p", "a", "r", "s", "e", " ",
                "e", "r", "r", "o", "r", ":", " ">>, display(self.err) >>
      [] self.variant \in {"Json", "Yaml"} ->
           << <<"y", "a", "m", "l", " ", "c", "o", "n", "v", "e", "r", "s", "i",
                "o", "n", " ", "e", "r", "r", "o", "r", ":", " ">>,
              display(self.err) >>

\* the pieces write!(formatter, "...: {}", err) writes, in order
Arguments(self) ==
    CASE self.variant = "Fmt" ->
           << <<"f", "o", "r", "m", "a", "t", "t", "i", "n", "g", " ",
                "e", "r", "r", "o", "r", ":", " ">>, display(self.err) >>
      [] self.variant = "RegEx" ->
           << <<"r", "e", "g", "e", "x", " ", "e", "r", "r", "o", "r", ":", " ">>,
              display(self.err) >>
      [] self.variant = "Chrono" ->
           << <<"c", "h", "r", "o", "n", "o", " ", "p", "a", "r", "s", "e", " ",
                "e", "r", "r", "o", "r", ":", " ">>, display(self.err) >>
      [] self.variant = "Json" /\ cfg("serde_json") ->
           << <<"j", "s", "o", "n", " ", "c", "o", "n", "v", "e", "r", "s", "i",
                "o", "n", " ", "e", "r", "r", "o", "r", ":", " ">>,
              display(self.err) >>
      [] self.variant = "Yaml" /\ cfg("serde_yaml") ->
           << <<"y", "a", "m", "l", " ", "c", "o", "n", "v", "e", "r", "s", "i",
                "o", "n", " ", "e", "r", "r", "o", "r", ":", " ">>,
              display(self.err) >>

\* Formatter::write_str: the piece goes after what the buffer holds
write_str(buf, piece) == buf \o piece

RECURSIVE write_fmt(_, _)
\* Formatter::write_fmt: every piece, in order
write_fmt(buf, pieces) ==
    IF pieces = <<>> THEN buf
    ELSE write_fmt(write_str(buf, Head(pieces)), Tail(pieces))

\* an fmt that moves the message out of the payload as it writes it
fmt_take(self, formatter) ==
    [self |-> [self EXCEPT !.err.msg = <<>>],
     formatter |-> write_fmt(formatter, Arguments(self)), ret |-> "Ok"]

\* fmt(&self, formatter): the result, the formatter's buffer and self as the
\* call leaves them
fmt(self, formatter) ==
    [self |-> self, formatter |-> write_fmt(formatter, Arguments(self)), ret |-> "Ok"]

\* to_string(): fmt into a new, empty buffer
to_string(self) == fmt(self, <<>>)

---------------------------------------------------------------------------
(* The state machine *)

NoneAt == [s \in Slots |-> None]

Init ==
    /\ features \in SUBSET Features
    /\ failure = NoneAt
    /\ res = NoneAt
    /\ owner = [s \in Slots |-> [made |-> "t1", held |-> "t1"]]
    /\ shown = [s \in Slots |-> [t \in Threads |-> None]]
    /\ caused = [s \in Slots |-> [t \in Threads |-> None]]
    /\ fmtr = [t \in Threads |-> None]

\* thread t runs a wrapped operation that returns r and propagates it into slot s
Operation(t, s, r) ==
    /\ res[s] = None
    /\ r.tag = "Err" => r.err.ty \in FromImpls
    /\ failure' = [failure EXCEPT ![s] = r]
    /\ res' = [res EXCEPT ![s] = Propagate(r)]
    /\ owner' = [owner EXCEPT ![s] = [made |-> t, held |-> t]]
    /\ UNCHANGED <<features, shown, caused, fmtr>>

\* thread t calls to_string() on the error in slot s
Describe(t, s) ==
    /\ res[s].tag = "Err"
    /\ fmtr[t] = None
    /\ LET r == to_string(res[s].err)
       IN /\ res' = [res EXCEPT ![s] = Err(r.self)]
          /\ shown' = [shown EXCEPT ![s][t] = [ret |-> r.ret, text |-> r.formatter]]
    /\ UNCHANGED <<features, failure, owner, caused, fmtr>>

\* thread t calls cause() on the error in slot s
Cause(t, s) ==
    /\ res[s].tag = "Err"
    /\ LET r == cause(res[s].err)
       IN /\ res' = [res EXCEPT ![s] = Err(r.self)]
          /\ caused' = [caused EXCEPT ![s][t] = [ret |-> r.ret]]
    /\ UNCHANGED <<features, failure, owner, shown, fmtr>>

\* thread t starts a to_string() on the error in slot s: a new, empty buffer
ToStringBegin(t, s) ==
    /\ res[s].tag = "Err"
    /\ fmtr[t] = None
    /\ fmtr' = [fmtr EXCEPT ![t] = [tag |-> "Some", slot |-> s, buf |-> <<>>, next |-> 1]]
    /\ UNCHANGED <<features, failure, res, owner, shown, caused>>

\* thread t's fmt() writes its next piece; after the last one to_string() returns
WritePiece(t) ==
    /\ fmtr[t] # None
    /\ LET f == fmtr[t]
           pieces == Arguments(res[f.slot].err)
           buf == write_str(f.buf, pieces[f.next])
       IN IF f.next < Len(pieces)
          THEN /\ fmtr' = [fmtr EXCEPT ![t] = [f EXCEPT !.buf = buf, !.next = f.next + 1]]
               /\ UNCHANGED shown
          ELSE /\ fmtr' = [fmtr EXCEPT ![t] = None]
               /\ shown' = [shown EXCEPT ![f.slot][t] = [ret |-> "Ok", text |-> buf]]
    /\ UNCHANGED <<features, failure, res, owner, caused>>

\* the value in slot s is handed to thread u; no to_string() borrows it meanwhile
Send(s, u) ==
    /\ res[s] # None
    /\ owner[s].held # u
    /\ \A t \in Threads : fmtr[t] # None => fmtr[t].slot # s
    /\ owner' = [owner EXCEPT ![s].held = u]
    /\ UNCHANGED <<features, failure, res, shown, caused, fmtr>>

\* one thread, two values
Next ==
    \E s \in Slots :
        \/ \E r \in OpResults : Operation("t1", s, r)
        \/ Describe("t1", s)
        \/ Cause("t1", s)

Spec == Init /\ [][Next]_vars

\* two threads, one value, fmt() interleaved piece by piece
NextThreads ==
    \E t \in Threads :
        \/ \E r \in OpResults : Operation(t, 1, r)
        \/ ToStringBegin(t, 1)
        \/ WritePiece(t)
        \/ Cause(t, 1)
        \/ Send(1, t)

SpecThreads == Init /\ [][NextThreads]_vars

---------------------------------------------------------------------------
(* The documented behaviour the properties below are stated against *)

\* the category that wraps each underlying error type
SpecCategory(ty) ==
    CASE ty = "fmt::Error" -> "Fmt"
      [] ty = "regex::Error" -> "RegEx"
      [] ty = "chrono::format::ParseError" -> "Chrono"
      [] ty = "serde_json::Error" -> "Json"
      [] ty = "serde_yaml::Error" -> "Yaml"

\* the fixed prefix of each category's rendered text
SpecPrefix(category) ==
    CASE category = "Fmt" ->
           <<"f", "o", "r", "m", "a", "t", "t", "i", "n", "g", " ",
             "e", "r", "r", "o", "r", ":", " ">>
      [] category = "RegEx" ->
           <<"r", "e", "g", "e", "x", " ", "e", "r", "r", "o", "r", ":", " ">>
      [] category = "Chrono" ->
           <<"c", "h", "r", "o", "n", "o", " ", "p", "a", "r", "s", "e", " ",
             "e", "r", "r", "o", "r", ":", " ">>
      [] category = "Json" ->
           <<"j", "s", "o", "n", " ", "c", "o", "n", "v", "e", "r", "s", "i",
             "o", "n", " ", "e", "r", "r", "o", "r", ":", " ">>
      [] category = "Yaml" ->
           <<"y", "a", "m", "l", " ", "c", "o", "n", "v", "e", "r", "s", "i",
             "o", "n", " ", "e", "r", "r", "o", "r", ":", " ">>

\* the text describe() is to return for the aggregate built from e
SpecText(e) == SpecPrefix(SpecCategory(e.ty)) \o e.msg

\* slot s holds an aggregate built from a failed operation
Failed(s) == failure[s].tag = "Err" /\ res[s].tag = "Err"

StartsWith(text, p) ==
    Len(p) <= Len(text) /\ SubSeq(text, 1, Len(p)) = p

---------------------------------------------------------------------------
(* C1 *)

\* C1: whatever the category and the underlying error e, every to_string() of
\* the aggregate built from e returns the category's fixed prefix followed by
\* e's own message, character for character.
C1_DescribeIsPrefixThenMessage ==
    \A s \in Slots : \A t \in Threads :
        shown[s][t] # None =>
            /\ Failed(s)
            /\ shown[s][t].text = SpecText(failure[s].err)

\* a regex error whose message holds a quote has been rendered
C1_Witness ==
    \E s \in Slots :
        /\ Failed(s)
        /\ failure[s].err.ty = "regex::Error"
        /\ failure[s].err.msg = <<"\"">>
        /\ shown[s]["t1"] # None

---------------------------------------------------------------------------
(* C2 *)

\* C2: whatever the category and the underlying error e, every cause() of the
\* aggregate wrapping e returns what e's own source() returns: e's nested
\* cause when it has one, none when it has none, and never e itself.
C2_CauseIsPayloadsSource ==
    \A s \in Slots : \A t \in Threads :
        caused[s][t] # None =>
            /\ Failed(s)
            /\ caused[s][t].ret = failure[s].err.source
            /\ caused[s][t].ret # Some(failure[s].err)

\* cause() has returned a nested cause for one aggregate and none for another
C2_Witness ==
    \E s, u \in Slots :
        /\ Failed(s) /\ Failed(u)
        /\ caused[s]["t1"] # None /\ caused[s]["t1"].ret.tag = "Some"
        /\ caused[u]["t1"] # None /\ caused[u]["t1"].ret = None

---------------------------------------------------------------------------
(* C3 *)

\* the underlying error types the build supports, per the feature switches
SpecSupported ==
    {"fmt::Error", "regex::Error", "chrono::format::ParseError"}
        \cup {ty \in {"serde_json::Error"} : "serde_json" \in features}
        \cup {ty \in {"serde_yaml::Error"} : "serde_yaml" \in features}

\* C3: conversion is total and lossless.  Every underlying error e of a
\* supported type can be converted (the operation failing with e is enabled
\* wherever a result is still to be produced), and the aggregate made from e
\* is a value of the type, has e's category, holds e unchanged, and is
\* described and asked for its cause as the rules for e say.
C3_FromIsTotalAndLossless ==
    \A s \in Slots :
        /\ res[s] = None =>
              \A ty \in SpecSupported : \A e \in Underlying(ty) :
                  ENABLED Operation("t1", s, Err(e))
        /\ failure[s].tag = "Err" =>
              /\ res[s].tag = "Err"
              /\ res[s].err \in Error
              /\ res[s].err.variant = SpecCategory(failure[s].err.ty)
              /\ res[s].err.err = failure[s].err
              /\ \A t \in Threads :
                    /\ shown[s][t] # None =>
                          shown[s][t].text = SpecText(res[s].err.err)
                    /\ caused[s][t] # None =>
                          caused[s][t].ret = res[s].err.err.source

\* a regex error with a nested cause has been converted, described and asked
\* for its cause
C3_Witness ==
    \E s \in Slots :
        /\ Failed(s)
        /\ failure[s].err.ty = "regex::Error"
        /\ failure[s].err.source # None
        /\ shown[s]["t1"] # None
        /\ caused[s]["t1"] # None

---------------------------------------------------------------------------
(* C5 *)

\* C5: the Json variant and its conversion exist exactly when serde_json is
\* enabled, the Yaml ones exactly when serde_yaml is; with a switch off no
\* aggregate of that category is ever held and none can be made, and Fmt,
\* RegEx and Chrono exist whatever the switches.
C5_OptionalCategoriesFollowFeatures ==
    /\ "Json" \in Variants <=> "serde_json" \in features
    /\ "Yaml" \in Variants <=> "serde_yaml" \in features
    /\ "serde_json::Error" \in FromImpls <=> "serde_json" \in features
    /\ "serde_yaml::Error" \in FromImpls <=> "serde_yaml" \in features
    /\ {"Fmt", "RegEx", "Chrono"} \subseteq Variants
    /\ {"fmt::Error", "regex::Error", "chrono::format::ParseError"} \subseteq FromImpls
    /\ \A s \in Slots :
          /\ res[s].tag = "Err" =>
                /\ res[s].err.variant = "Json" => "serde_json" \in features
                /\ res[s].err.variant = "Yaml" => "serde_yaml" \in features
          /\ res[s] = None =>
                /\ \A e \in Underlying("serde_json::Error") :
                      ENABLED Operation("t1", s, Err(e)) <=> "serde_json" \in features
                /\ \A e \in Underlying("serde_yaml::Error") :
                      ENABLED Operation("t1", s, Err(e)) <=> "serde_yaml" \in features
                /\ \A ty \in {"fmt::Error", "regex::Error", "chrono::format::ParseError"} :
                      \A e \in Underlying(ty) : ENABLED Operation("t1", s, Err(e))

\* with serde_json on and serde_yaml off, a Json aggregate and a core one are held
C5_Witness ==
    /\ features = {"serde_json"}
    /\ res[1].tag = "Err" /\ res[1].err.variant = "Json"
    /\ res[2].tag = "Err" /\ res[2].err.variant = "Chrono"

---------------------------------------------------------------------------
(* C6 *)

\* C6: no failure is dropped.  Whenever a wrapped operation has failed with an
\* underlying error e, the propagated result is a failure whose aggregate has
\* e's category and holds e; it is never a success and never another category.
C6_FailurePropagated ==
    \A s \in Slots :
        /\ failure[s] # None => res[s] \in Result
        /\ failure[s].tag = "Err" =>
              /\ res[s].tag = "Err"
              /\ res[s].err.variant = SpecCategory(failure[s].err.ty)
              /\ res[s].err.err = failure[s].err
        /\ failure[s].tag = "Ok" => res[s] = failure[s]

\* one operation failed with a time-parsing error, another succeeded
C6_Witness ==
    \E s, u \in Slots :
        /\ failure[s].tag = "Err"
        /\ failure[s].err.ty = "chrono::format::ParseError"
        /\ res[s].tag = "Err"
        /\ failure[u].tag = "Ok"

---------------------------------------------------------------------------
(* C8 *)

\* the payload type that belongs to each category
SpecPayload(category) ==
    CASE category = "Fmt" -> "fmt::Error"
      [] category = "RegEx" -> "regex::Error"
      [] category = "Chrono" -> "chrono::format::ParseError"
      [] category = "Json" -> "serde_json::Error"
      [] category = "Yaml" -> "serde_yaml::Error"

\* C8: every aggregate held has exactly one category, one of the five, and
\* exactly one payload, of the type that belongs to the category; and no call
\* on it has failed.
C8_OneCategoryOnePayload ==
    \A s \in Slots :
        /\ res[s].tag \in {"None", "Ok", "Err"}
        /\ res[s].tag = "Err" =>
              /\ DOMAIN res[s].err = {"variant", "err"}
              /\ res[s].err.variant \in {"Fmt", "RegEx", "Chrono", "Json", "Yaml"}
              /\ res[s].err.err.ty = SpecPayload(res[s].err.variant)
              /\ res[s].err.err \in Underlying(res[s].err.err.ty)
        /\ \A t \in Threads :
              /\ shown[s][t] # None => shown[s][t].ret = "Ok"
              /\ caused[s][t] # None => caused[s][t].ret.tag \in {"None", "Some"}

\* a formatting error and a YAML error are held, and both have been described
C8_Witness ==
    \E s, u \in Slots :
        /\ res[s].tag = "Err" /\ res[s].err.variant = "Fmt"
        /\ res[u].tag = "Err" /\ res[u].err.variant = "Yaml"
        /\ shown[s]["t1"] # None /\ shown[u]["t1"] # None

---------------------------------------------------------------------------
(* C4 *)

\* C4: a value made on one thread and handed to another can be described
\* there without error, and however the threads' calls on the same value
\* interleave, every to_string() and cause() returns what a call running
\* alone returns, so all threads see the same text and the same cause.
C4_SameResultOnEveryThread ==
    \A s \in Slots :
        /\ \A t \in Threads :
              /\ shown[s][t] # None =>
                    /\ res[s].tag = "Err"
                    /\ shown[s][t].ret = "Ok"
                    /\ shown[s][t].text = to_string(res[s].err).formatter
              /\ caused[s][t] # None =>
                    /\ res[s].tag = "Err"
                    /\ caused[s][t].ret = cause(res[s].err).ret
        /\ \A t, u \in Threads :
              /\ (shown[s][t] # None /\ shown[s][u] # None) => shown[s][t] = shown[s][u]
              /\ (caused[s][t] # None /\ caused[s][u] # None) => caused[s][t] = caused[s][u]

\* the value was handed to another thread, which has described it and asked
\* for its cause while the making thread was in the middle of describing it
C4_Witness ==
    \E s \in Slots :
        /\ res[s].tag = "Err"
        /\ owner[s].held # owner[s].made
        /\ shown[s][owner[s].held] # None
        /\ caused[s][owner[s].held] # None
        /\ caused[s][owner[s].made] # None
        /\ fmtr[owner[s].made] # None
        /\ fmtr[owner[s].made].slot = s
        /\ fmtr[owner[s].made].next = 2

---------------------------------------------------------------------------
(* C7 *)

\* C7: the aggregate is an immutable value.  No step changes a result that
\* has been produced, whatever is called on it; a later to_string() or
\* cause() on the same value returns what the earlier one returned; and two
\* aggregates built from equal underlying errors are described by equal texts.
C7_Step ==
    /\ \A s \in Slots :
          /\ res[s] # None => res'[s] = res[s]
          /\ \A t \in Threads :
                /\ shown[s][t] # None => shown'[s][t] = shown[s][t]
                /\ caused[s][t] # None => caused'[s][t] = caused[s][t]
    /\ \A s, u \in Slots : \A t, v \in Threads :
          (/\ failure'[s].tag = "Err"
           /\ failure'[s] = failure'[u]
           /\ shown'[s][t] # None
           /\ shown'[u][v] # None) => shown'[s][t].text = shown'[u][v].text

C7_Immutable == [][C7_Step]_vars

\* two aggregates built from equal underlying errors have both been described,
\* and one of them has also been asked for its cause
C7_Witness ==
    /\ failure[1].tag = "Err"
    /\ failure[1] = failure[2]
    /\ shown[1]["t1"] # None
    /\ shown[2]["t1"] # None
    /\ caused[1]["t1"] # None

---------------------------------------------------------------------------
(* C10 *)

\* C10: the category can be read off the rendered text.  For two aggregates of
\* different categories the format string of the one is not a prefix of the
\* format string of the other, no text of the one starts with the format
\* string of the other, and the texts returned for them differ.
C10_CategoryRecoverable ==
    \A s, u \in Slots :
        (/\ res[s].tag = "Err"
         /\ res[u].tag = "Err"
         /\ res[s].err.variant # res[u].err.variant) =>
            /\ ~StartsWith(Arguments(res[u].err)[1], Arguments(res[s].err)[1])
            /\ ~StartsWith(to_string(res[u].err).formatter, Arguments(res[s].err)[1])
            /\ to_string(res[s].err).formatter # to_string(res[u].err).formatter
            /\ \A t, v \in Threads :
                  (shown[s][t] # None /\ shown[u][v] # None) =>
                      shown[s][t].text # shown[u][v].text

\* a Json and a Yaml aggregate with the same underlying message have both
\* been described
C10_Witness ==
    \E s, u \in Slots :
        /\ res[s].tag = "Err" /\ res[s].err.variant = "Json"
        /\ res[u].tag = "Err" /\ res[u].err.variant = "Yaml"
        /\ res[s].err.err.msg = res[u].err.err.msg
        /\ shown[s]["t1"] # None /\ shown[u]["t1"] # None

=============================================================================
